---- MODULE Spec2Model ----
(***************************************************************************)
(* Hangman game service (api.py, main.py): the request handlers of         *)
(* GuessANumberApi as atomic actions over the datastore.                   *)
(*                                                                         *)
(* A Python string is a sequence of one-character TLA+ strings:            *)
(* "ab" is <<"a", "b">>, the empty string is << >>.  A list of strings     *)
(* (guess_state, guess_history) is a sequence of such sequences.           *)
(*                                                                         *)
(* models.py (Game.new_game, update_guess_state, end_game, cancelled,      *)
(* to_form) is not part of the sources; those methods follow spec.md.      *)
(***************************************************************************)
EXTENDS Integers, Sequences, FiniteSets, TLC

VARIABLES
    users,      \* User entities in the datastore, in creation order
    games,      \* Game entities in the datastore, keyed by creation index
    scores,     \* Score entities in the datastore, in creation order
    taskqueue,  \* number of queued /tasks/cache_average_attempts tasks
    memcache,   \* the cache entry MOVES_REMAINING
    outbox,     \* the mails sent by the last run of the reminder job
    inflight,   \* the handlers that run concurrently, one per client
    request,    \* the request the service handled last
    response    \* the message it returned for that request

vars ==
    <<users, games, scores, taskqueue, memcache, outbox, inflight,
      request, response>>

\* what the request handlers of the game never touch
background == <<memcache, outbox, inflight>>

-----------------------------------------------------------------------------
(* Bounds *)

MaxAttempts == 3
MaxLen == 2
MaxOverdraw == 2

Alphabet == {"a", "b"}

Strings == UNION {[1..n -> Alphabet] : n \in 0..MaxLen}

TargetWords == {<<"a">>, <<"a", "a">>, <<"a", "b">>}

UserNames == {"ann", "bob"}

GameKeys == {1}

Emails == {"none"}

Hints == 1..2

Budgets == 0..MaxAttempts

-----------------------------------------------------------------------------
(* Strings and lists *)

\* ''.join(list)
RECURSIVE join(_)
join(list) == IF list = << >> THEN << >> ELSE Head(list) \o join(Tail(list))

\* `x in s' for two strings: substring test
str_contains(s, x) ==
    \E i \in 0..(Len(s) - Len(x)) : \A j \in 1..Len(x) : s[i + j] = x[j]

\* `x in list' for a list
list_contains(list, x) == \E i \in 1..Len(list) : list[i] = x

Placeholder == <<"_">>

-----------------------------------------------------------------------------
(* models.py, after spec.md *)

\* Game.new_game: the error it raises for the parameters, "none" if it accepts
new_game_error(min, max, attempts) ==
    IF max <= min THEN "InvalidRangeError"
    ELSE IF attempts <= 0 THEN "InvalidBudgetError"
    ELSE "none"

\* Game.new_game: the entity of a freshly created game
new_game_entity(user, attempts, target) ==
    [user |-> user,
     target |-> target,
     guess_state |-> [i \in 1..Len(target) |-> Placeholder],
     guess_history |-> << >>,
     attempts_allowed |-> attempts,
     attempts_remaining |-> attempts,
     game_over |-> FALSE,
     won |-> FALSE,
     cancelled |-> FALSE]

\* evaluate_letter: reveal every position of target that holds the letter
evaluate_letter(target, guess_state, letter) ==
    [i \in 1..Len(guess_state) |->
        IF i <= Len(target) /\ <<target[i]>> = letter
        THEN letter ELSE guess_state[i]]

\* evaluate_word pairing the letters of word and target as zip() does, so
\* that the result is as long as the shorter of the two
evaluate_word_zip(target, guess_state, word) ==
    [i \in 1..(IF Len(word) < Len(target) THEN Len(word) ELSE Len(target)) |->
        IF target[i] = word[i] THEN <<word[i]>> ELSE guess_state[i]]

\* a whole-word guess, evaluated position by position
evaluate_word(target, guess_state, word) ==
    [i \in 1..Len(guess_state) |->
        IF i <= Len(target) /\ i <= Len(word) /\ target[i] = word[i]
        THEN <<word[i]>> ELSE guess_state[i]]

\* Game.update_guess_state(guess)
update_guess_state(game, guess) ==
    [game EXCEPT !.guess_state =
        IF Len(guess) = 1
        THEN evaluate_letter(game.target, @, guess)
        ELSE evaluate_word(game.target, @, guess)]

\* Game.end_game(won): the entity it stores
end_game(game, won) == [game EXCEPT !.game_over = TRUE, !.won = won]

\* the Score that Game.end_game(won) stores; `game' is the key of the game,
\* kept to count the scores of each game
Score(game, key, won) ==
    [user |-> game.user,
     won |-> won,
     guesses |-> game.attempts_allowed - game.attempts_remaining,
     game |-> key]

\* Game.cancelled(True)
cancelled(game) ==
    [game EXCEPT !.game_over = TRUE, !.won = FALSE, !.cancelled = TRUE]

\* Game.to_form(message)
to_form(game, key, message) ==
    [status |-> "ok",
     urlsafe_key |-> key,
     attempts_remaining |-> game.attempts_remaining,
     guess_state |-> join(game.guess_state),
     game_over |-> game.game_over,
     message |-> message]

\* StringMessage(message) and the endpoints exceptions
StringMessage(status, message) ==
    [status |-> status,
     urlsafe_key |-> 0,
     attempts_remaining |-> 0,
     guess_state |-> << >>,
     game_over |-> FALSE,
     message |-> message]

-----------------------------------------------------------------------------
(* api.py: the steps of the handlers *)

\* game.attempts_remaining -= 1
decrement(game) == [game EXCEPT !.attempts_remaining = @ - 1]

\* len(request.guess) != 1
malformed(guess) == Len(guess) # 1

\* in_history looking among the revealed letters instead of the history
in_history_revealed(game, guess) == list_contains(game.guess_state, guess)

\* request.guess in game.guess_history
in_history(game, guess) == list_contains(game.guess_history, guess)

\* game.guess_history.append(request.guess)
append_history(game, guess) ==
    [game EXCEPT !.guess_history = Append(@, guess)]

\* game.target == ''.join(game.guess_state)
is_complete(game) == game.target = join(game.guess_state)

\* game.attempts_remaining < 1
exhausted(game) == game.attempts_remaining < 1

\* What a handler did: the entity it holds when it returns, whether it
\* stored it (put), the Score it stored ("none", "won", "lost") and its message.
Outcome(game, put, score, message) ==
    [game |-> game, put |-> put, score |-> score, message |-> message]

\* make_move, lines 140-149: win, loss or play on
make_move_finish(game, msg) ==
    IF is_complete(game)
    THEN Outcome(end_game(game, TRUE), TRUE, "won",
                 "You guessed all the letters, you win!")
    ELSE IF exhausted(game)
    THEN Outcome(end_game(game, FALSE), TRUE, "lost", msg \o " Game over!")
    ELSE Outcome(game, TRUE, "none", msg)

\* make_move, lines 132-138: record the guess and evaluate it
make_move_evaluate(game, guess) ==
    LET g2 == append_history(game, guess) IN
    IF str_contains(g2.target, guess)
    THEN make_move_finish(update_guess_state(g2, guess),
                          "The word contains your letter!")
    ELSE make_move_finish(g2, "Letter not in word.")

\* make_move, lines 120-130: the guess is checked after the decrement
make_move_checked(game, guess) ==
    IF malformed(guess)
    THEN Outcome(game, TRUE, "none", "One letter at a time please, guess again.")
    ELSE IF in_history(game, guess)
    THEN Outcome(game, TRUE, "none",
                 "You already tried that letter, guess again.")
    ELSE make_move_evaluate(game, guess)

\* make_move without the game_over check
make_move_outcome_unguarded(game, guess) ==
    make_move_checked(decrement(game), guess)

\* the body of make_move on the loaded entity
make_move_outcome(game, guess) ==
    IF game.game_over
    THEN Outcome(game, FALSE, "none", "Game already over!")
    ELSE make_move_checked(decrement(game), guess)

\* guess_word testing for exhausted attempts before it compares the word
guess_word_evaluate_loss_first(game, guess) ==
    LET g2 == update_guess_state(game, guess) IN
    IF exhausted(g2)
    THEN Outcome(end_game(g2, FALSE), TRUE, "lost",
                 "That's not the word" \o " Game over!")
    ELSE IF guess = game.target
    THEN Outcome(end_game(g2, TRUE), TRUE, "won",
                 "You guessed the word, you win!")
    ELSE Outcome(g2, TRUE, "none", "That's not the word")

\* guess_word, lines 170-184: the word, or a wrong word
guess_word_evaluate(game, guess) ==
    IF guess = game.target
    THEN Outcome(end_game(update_guess_state(game, guess), TRUE), TRUE, "won",
                 "You guessed the word, you win!")
    ELSE
    LET g2 == update_guess_state(game, guess) IN
    IF exhausted(g2)
    THEN Outcome(end_game(g2, FALSE), TRUE, "lost",
                 "That's not the word" \o " Game over!")
    ELSE Outcome(g2, TRUE, "none", "That's not the word")

\* guess_word, lines 166-168: a repeat returns without game.put()
guess_word_checked(game, guess) ==
    IF in_history(game, guess)
    THEN Outcome(game, FALSE, "none",
                 "You already tried that word, guess again.")
    ELSE guess_word_evaluate(game, guess)

\* guess_word without the game_over check
guess_word_outcome_unguarded(game, guess) ==
    guess_word_checked(decrement(game), guess)

\* the body of guess_word on the loaded entity
guess_word_outcome(game, guess) ==
    IF game.game_over
    THEN Outcome(game, FALSE, "none", "Game already over!")
    ELSE guess_word_checked(decrement(game), guess)

\* cancel_game without the game_over check
cancel_game_outcome_unguarded(game) ==
    Outcome(cancelled(game), TRUE, "none", "game cancelled")

\* the body of cancel_game on the loaded entity
cancel_game_outcome(game) ==
    IF game.game_over
    THEN Outcome(game, FALSE, "none", "Game already over, can't cancel!")
    ELSE Outcome(cancelled(game), TRUE, "none", "game cancelled")

\* the datastore and the response after a handler with outcome `out' on game `key'
Commit(key, out) ==
    /\ games' = IF out.put THEN [games EXCEPT ![key] = out.game] ELSE games
    /\ scores' = IF out.score = "none" THEN scores
                 ELSE Append(scores, Score(out.game, key, out.score = "won"))
    /\ response' = to_form(out.game, key, out.message)

Request(op, key, guess) == [op |-> op, key |-> key, guess |-> guess]

\* the NewGameForm of a new_game request
NewGameRequest(user_name, min, max, attempts, target) ==
    [op |-> "new_game", key |-> 0, guess |-> << >>,
     user_name |-> user_name, min |-> min, max |-> max,
     attempts |-> attempts, target |-> target]

\* User(name=..., email=...)
User(user_name, email) == [name |-> user_name, email |-> email]

\* User.query(User.name == user_name).get() finds a user
user_exists(stored, user_name) ==
    \E i \in DOMAIN stored : stored[i].name = user_name

\* memcache.get of a key that was never set
NoValue == [set |-> FALSE, value |-> << >>]

-----------------------------------------------------------------------------
(* The service *)

Init ==
    /\ users = << >>
    /\ games = << >>
    /\ scores = << >>
    /\ taskqueue = 0
    /\ memcache = NoValue
    /\ outbox = << >>
    /\ inflight = << >>
    /\ request = Request("none", 0, << >>)
    /\ response = StringMessage("none", "")

create_user(user_name, email) ==
    /\ request' = Request("create_user", 0, << >>)
    /\ IF user_exists(users, user_name)
       THEN /\ response' = StringMessage("Conflict",
                               "A User with that name already exists!")
            /\ UNCHANGED users
       ELSE /\ users' = Append(users, User(user_name, email))
            /\ response' = StringMessage("ok", "User created!")
    /\ UNCHANGED <<games, scores, taskqueue, background>>

\* new_game queueing the statistics task before the parameters are checked
new_game_task_first(user_name, min, max, attempts, target) ==
    /\ Len(games) + 1 \in GameKeys
    /\ request' = NewGameRequest(user_name, min, max, attempts, target)
    /\ IF ~ user_exists(users, user_name)
       THEN /\ response' = StringMessage("NotFound",
                               "A User with that name does not exist!")
            /\ UNCHANGED <<games, taskqueue>>
       ELSE /\ taskqueue' = taskqueue + 1
            /\ IF new_game_error(min, max, attempts) = "InvalidRangeError"
               THEN /\ response' = StringMessage("BadRequest",
                                       "Maximum must be greater than minimum!")
                    /\ UNCHANGED games
               ELSE IF new_game_error(min, max, attempts) = "InvalidBudgetError"
               THEN /\ response' = StringMessage("InvalidBudgetError", "")
                    /\ UNCHANGED games
               ELSE LET game == new_game_entity(user_name, attempts, target) IN
                    /\ games' = Append(games, game)
                    /\ response' = to_form(game, Len(games) + 1,
                                           "Good luck playing Hangman!")
    /\ UNCHANGED <<users, scores, background>>

new_game(user_name, min, max, attempts, target) ==
    /\ Len(games) + 1 \in GameKeys
    /\ request' = NewGameRequest(user_name, min, max, attempts, target)
    /\ IF ~ user_exists(users, user_name)
       THEN /\ response' = StringMessage("NotFound",
                               "A User with that name does not exist!")
            /\ UNCHANGED <<games, taskqueue>>
       ELSE IF new_game_error(min, max, attempts) = "InvalidRangeError"
       THEN /\ response' = StringMessage("BadRequest",
                               "Maximum must be greater than minimum!")
            /\ UNCHANGED <<games, taskqueue>>
       ELSE IF new_game_error(min, max, attempts) = "InvalidBudgetError"
       THEN /\ response' = StringMessage("InvalidBudgetError", "")
            /\ UNCHANGED <<games, taskqueue>>
       ELSE LET game == new_game_entity(user_name, attempts, target) IN
            /\ games' = Append(games, game)
            /\ taskqueue' = taskqueue + 1
            /\ response' = to_form(game, Len(games) + 1,
                                   "Good luck playing Hangman!")
    /\ UNCHANGED <<users, scores, background>>

get_game(key) ==
    /\ key \in DOMAIN games
    /\ request' = Request("get_game", key, << >>)
    /\ response' = to_form(games[key], key, "Time to make a move!")
    /\ UNCHANGED <<users, games, scores, taskqueue, background>>

make_move(key, guess) ==
    /\ key \in DOMAIN games
    /\ games[key].attempts_remaining > -MaxOverdraw
    /\ request' = Request("make_move", key, guess)
    /\ Commit(key, make_move_outcome(games[key], guess))
    /\ UNCHANGED <<users, taskqueue, background>>

guess_word(key, guess) ==
    /\ key \in DOMAIN games
    /\ games[key].attempts_remaining > -MaxOverdraw
    /\ request' = Request("guess_word", key, guess)
    /\ Commit(key, guess_word_outcome(games[key], guess))
    /\ UNCHANGED <<users, taskqueue, background>>

cancel_game(key) ==
    /\ key \in DOMAIN games
    /\ request' = Request("cancel_game", key, << >>)
    /\ Commit(key, cancel_game_outcome(games[key]))
    /\ UNCHANGED <<users, taskqueue, background>>

CreateUser == \E n \in UserNames, e \in Emails : create_user(n, e)

NewGame ==
    \E n \in UserNames, min \in Hints, max \in Hints,
       a \in Budgets, t \in TargetWords : new_game(n, min, max, a, t)

GetGame == \E k \in GameKeys : get_game(k)

MakeMove == \E k \in GameKeys, g \in Strings : make_move(k, g)

GuessWord == \E k \in GameKeys, g \in Strings : guess_word(k, g)

CancelGame == \E k \in GameKeys : cancel_game(k)

Next == CreateUser \/ NewGame \/ GetGame \/ MakeMove \/ GuessWord \/ CancelGame

Spec == Init /\ [][Next]_vars

-----------------------------------------------------------------------------
(* create_user run by several clients at once: the query of line 58 and the *)
(* put of line 62 are separate datastore operations, outside a transaction  *)

MaxClients == 2
MaxUsers == 3

Clients == 1..MaxClients

Idle == [pc |-> "idle"]

InitUsers ==
    /\ users = << >>
    /\ games = << >>
    /\ scores = << >>
    /\ taskqueue = 0
    /\ memcache = NoValue
    /\ outbox = << >>
    /\ inflight = [c \in Clients |-> Idle]
    /\ request = Request("none", 0, << >>)
    /\ response = StringMessage("none", "")

\* number of clients whose handler is running
Running == Cardinality({c \in Clients : inflight[c].pc # "idle"})

\* a client sends create_user(user_name, email)
create_user_begin(c, user_name, email) ==
    /\ inflight[c].pc = "idle"
    /\ Len(users) + Running < MaxUsers
    /\ inflight' = [inflight EXCEPT ![c] =
           [pc |-> "query", user_name |-> user_name, email |-> email]]
    /\ UNCHANGED <<users, games, scores, taskqueue, memcache, outbox,
                   request, response>>

\* line 58: the existence query; a user found raises ConflictException
create_user_query(c) ==
    /\ inflight[c].pc = "query"
    /\ IF user_exists(users, inflight[c].user_name)
       THEN /\ inflight' = [inflight EXCEPT ![c] = Idle]
            /\ request' = Request("create_user", 0, << >>)
            /\ response' = StringMessage("Conflict",
                               "A User with that name already exists!")
       ELSE /\ inflight' = [inflight EXCEPT ![c].pc = "put"]
            /\ UNCHANGED <<request, response>>
    /\ UNCHANGED <<users, games, scores, taskqueue, memcache, outbox>>

\* lines 61-64: user.put() and the reply
create_user_put(c) ==
    /\ inflight[c].pc = "put"
    /\ users' = Append(users, User(inflight[c].user_name, inflight[c].email))
    /\ inflight' = [inflight EXCEPT ![c] = Idle]
    /\ request' = Request("create_user", 0, << >>)
    /\ response' = StringMessage("ok", "User created!")
    /\ UNCHANGED <<games, scores, taskqueue, memcache, outbox>>

CreateUserBegin ==
    \E c \in Clients, n \in UserNames, e \in Emails :
        create_user_begin(c, n, e)

CreateUserQuery == \E c \in Clients : create_user_query(c)

CreateUserPut == \E c \in Clients : create_user_put(c)

NextUsers == CreateUserBegin \/ CreateUserQuery \/ CreateUserPut

SpecUsers == InitUsers /\ [][NextUsers]_vars

-----------------------------------------------------------------------------
(* Queries over many games: get_user_games and the reminder job *)

MaxPop == 3
PopBudget == 5

NoEmail == "none"

PopEmails == {NoEmail, "mail"}

QueryNames == UserNames \cup {"eve"}

\* a game of `owner' after PopBudget - remaining malformed guesses, cancelled
\* if `over'
played_game(owner, remaining, over) ==
    LET g == [new_game_entity(owner, PopBudget, <<"a">>)
                  EXCEPT !.attempts_remaining = remaining]
    IN  IF over THEN cancelled(g) ELSE g

\* the stored games a population is drawn from, for the given counters
Populations(owners, remainings) ==
    UNION {[1..n -> {played_game(o, r, v) :
                        o \in owners, r \in remainings, v \in BOOLEAN}]
           : n \in 0..MaxPop}

\* a query filter: property == value
FilterNode(prop, value) == [prop |-> prop, value |-> value]

\* Python's `x and y' for two FilterNode objects: a FilterNode defines no
\* truth value of its own, so x is true and the expression is y
python_and(x, y) == y

\* line 234: Game.query(Game.user == user.key and Game.game_over == False),
\* a query with the one filter the `and' expression evaluates to
user_games_filter(user_name) ==
    <<python_and(FilterNode("user", user_name),
                 FilterNode("game_over", FALSE))>>

\* main.py line 24: Game.query(Game.user == user.key, Game.game_over == False),
\* a query with two filters
reminder_filter(user_name) ==
    <<FilterNode("user", user_name), FilterNode("game_over", FALSE)>>

\* whether an entity passes every filter of a query
matches(game, filter) ==
    \A i \in DOMAIN filter : game[filter[i].prop] = filter[i].value

\* the keys of the games a query yields, in key order
RECURSIVE query_keys(_, _, _)
query_keys(stored, filter, k) ==
    IF k > Len(stored) THEN << >>
    ELSE (IF matches(stored[k], filter) THEN <<k>> ELSE << >>)
             \o query_keys(stored, filter, k + 1)

\* GameForms(items=[game.to_form("") for game in games])
GameForms(stored, keys) ==
    [status |-> "ok",
     items |-> [i \in 1..Len(keys) |-> to_form(stored[keys[i]], keys[i], "")]]

UserRequest(op, user_name) ==
    [op |-> op, key |-> 0, guess |-> << >>, user_name |-> user_name]

get_user_games(user_name) ==
    /\ request' = UserRequest("get_user_games", user_name)
    /\ IF ~ user_exists(users, user_name)
       THEN response' = StringMessage("NotFound",
                            "A User with that name does not exist!")
       ELSE response' = GameForms(games,
                            query_keys(games, user_games_filter(user_name), 1))
    /\ UNCHANGED <<users, games, scores, taskqueue, background>>

\* `if games:' on a Query object, which defines no truth value of its own:
\* true whatever the query would yield
query_truth(stored, filter) == TRUE

\* the mail of main.py lines 26-33
Reminder(user) ==
    [to |-> user.email,
     subject |-> "Hangman reminder!",
     name |-> user.name]

\* the mails of one run of SendReminderEmail.get, over the users from index i
RECURSIVE reminders(_, _, _)
reminders(stored_users, stored_games, i) ==
    IF i > Len(stored_users) THEN << >>
    ELSE LET user == stored_users[i] IN
         (IF /\ user.email # NoEmail
             /\ query_truth(stored_games, reminder_filter(user.name))
          THEN <<Reminder(user)>> ELSE << >>)
             \o reminders(stored_users, stored_games, i + 1)

send_reminder ==
    /\ request' = Request("send_reminder", 0, << >>)
    /\ outbox' = reminders(users, games, 1)
    /\ response' = StringMessage("ok", "")
    /\ UNCHANGED <<users, games, scores, taskqueue, memcache, inflight>>

InitReports ==
    /\ users \in {<<User("ann", e1), User("bob", e2)>> :
                     e1 \in PopEmails, e2 \in PopEmails}
    /\ games \in Populations(UserNames, {PopBudget})
    /\ scores = << >>
    /\ taskqueue = 0
    /\ memcache = NoValue
    /\ outbox = << >>
    /\ inflight = << >>
    /\ request = Request("none", 0, << >>)
    /\ response = StringMessage("none", "")

GetUserGames == \E n \in QueryNames : get_user_games(n)

NextReports == GetUserGames \/ send_reminder

SpecReports == InitReports /\ [][NextReports]_vars

-----------------------------------------------------------------------------
(* make_move, guess_word and cancel_game run by several clients at once on  *)
(* one game: get_by_urlsafe loads the entity, the handler changes its own   *)
(* copy and puts it, outside a transaction                                  *)

GameOps == {"make_move", "guess_word", "cancel_game"}

\* the body of the handler `op' on the loaded entity
handler_outcome(op, game, guess) ==
    CASE op = "make_move" -> make_move_outcome(game, guess)
      [] op = "guess_word" -> guess_word_outcome(game, guess)
      [] op = "cancel_game" -> cancel_game_outcome(game)

InitConc ==
    /\ users = <<User("ann", NoEmail)>>
    /\ games \in {<<new_game_entity("ann", a, t)>> :
                     a \in 1..MaxAttempts, t \in TargetWords}
    /\ scores = << >>
    /\ taskqueue = 1
    /\ memcache = NoValue
    /\ outbox = << >>
    /\ inflight = [c \in Clients |-> Idle]
    /\ request = Request("none", 0, << >>)
    /\ response = StringMessage("none", "")

\* a request arrives and get_by_urlsafe loads the game
call_load(c, op, key, guess) ==
    /\ inflight[c].pc = "idle"
    /\ key \in DOMAIN games
    /\ inflight' = [inflight EXCEPT ![c] =
           [pc |-> "loaded", op |-> op, key |-> key, guess |-> guess,
            game |-> games[key]]]
    /\ UNCHANGED <<users, games, scores, taskqueue, memcache, outbox,
                   request, response>>

\* the rest of the handler, on the entity it loaded
call_finish(c) ==
    /\ inflight[c].pc = "loaded"
    /\ request' = Request(inflight[c].op, inflight[c].key, inflight[c].guess)
    /\ Commit(inflight[c].key,
              handler_outcome(inflight[c].op, inflight[c].game,
                              inflight[c].guess))
    /\ inflight' = [inflight EXCEPT ![c].pc = "done"]
    /\ UNCHANGED <<users, taskqueue, memcache, outbox>>

CallLoad ==
    \E c \in Clients, op \in GameOps, k \in GameKeys, g \in Strings :
        /\ op = "cancel_game" => g = << >>
        /\ call_load(c, op, k, g)

CallFinish == \E c \in Clients : call_finish(c)

NextConc == CallLoad \/ CallFinish

SpecConc == InitConc /\ [][NextConc]_vars

-----------------------------------------------------------------------------
(* The statistics task: _cache_average_attempts and get_average_attempts *)

\* the decimal digits of a natural number
RECURSIVE digits(_)
digits(n) ==
    LET d == <<"0", "1", "2", "3", "4", "5", "6", "7", "8", "9">>[(n % 10) + 1]
    IN  IF n < 10 THEN <<d>> ELSE digits(n \div 10) \o <<d>>

\* '{:.2f}'.format(float(total)/count): the quotient rounded to the nearest
\* hundredth.  A quotient halfway between two hundredths is rounded to the
\* even one; it occurs only when count is a multiple of 8, and the quotient
\* is then an exact binary fraction for every count below 40.
format_2f(total, count) ==
    LET a == IF total < 0 THEN -total ELSE total
        q == (a * 100) \div count
        r == (a * 100) % count
        h == IF 2 * r > count THEN q + 1
             ELSE IF 2 * r < count THEN q
             ELSE IF q % 2 = 0 THEN q ELSE q + 1
    IN  (IF total < 0 THEN <<"-">> ELSE << >>)
            \o digits(h \div 100) \o <<".">>
            \o digits((h \div 10) % 10) \o digits(h % 10)

AverageText == "The average moves remaining is "

\* the average computed with total/count on integers, without float()
cached_message_floor(total, count) ==
    <<AverageText>> \o format_2f(total \div count, 1)

\* lines 273-275: the text stored in the cache, its leading words kept as one
\* element
cached_message(total, count) ==
    <<AverageText>> \o format_2f(total, count)

\* sum([game.attempts_remaining for game in games]) over the keys from k
RECURSIVE total_attempts_remaining(_, _, _)
total_attempts_remaining(stored, keys, k) ==
    IF k > Len(keys) THEN 0
    ELSE stored[keys[k]].attempts_remaining
             + total_attempts_remaining(stored, keys, k + 1)

\* main.py UpdateAverageMovesRemaining.post, run for a queued task
cache_average_attempts ==
    /\ taskqueue > 0
    /\ taskqueue' = taskqueue - 1
    /\ request' = Request("cache_average_attempts", 0, << >>)
    /\ response' = StringMessage("204", "")
    /\ LET keys == query_keys(games, <<FilterNode("game_over", FALSE)>>, 1) IN
       IF keys # << >>
       THEN memcache' =
                [set |-> TRUE,
                 value |-> cached_message(
                     total_attempts_remaining(games, keys, 1), Len(keys))]
       ELSE UNCHANGED memcache
    /\ UNCHANGED <<users, games, scores, outbox, inflight>>

\* memcache.get(MEMCACHE_MOVES_REMAINING) or ''
get_average_attempts ==
    /\ request' = Request("get_average_attempts", 0, << >>)
    /\ response' = [status |-> "ok",
                    message |-> IF memcache.set /\ memcache.value # << >>
                                THEN memcache.value ELSE << >>]
    /\ UNCHANGED <<users, games, scores, taskqueue, background>>

InitStats ==
    /\ users = <<User("ann", NoEmail)>>
    /\ games \in Populations({"ann"}, (-1)..PopBudget)
    /\ scores = << >>
    /\ taskqueue \in 1..2
    /\ memcache \in {NoValue, [set |-> TRUE, value |-> cached_message(1, 1)]}
    /\ outbox = << >>
    /\ inflight = << >>
    /\ request = Request("none", 0, << >>)
    /\ response = StringMessage("none", "")

NextStats == cache_average_attempts \/ get_average_attempts

SpecStats == InitStats /\ [][NextStats]_vars

-----------------------------------------------------------------------------
(* Properties *)

\* the step just taken handled request `op' on game k
Handled(op, k) == request'.op = op /\ request'.key = k

\* the step just taken handled a letter or word guess on game k, Active before it
GuessOnActive(k) ==
    /\ ~games[k].game_over
    /\ Handled("make_move", k) \/ Handled("guess_word", k)

\* number of Score entities of game k
ScoreCount(k) == Cardinality({i \in DOMAIN scores : scores[i].game = k})

\* C1: in every reachable state the stored attempts_remaining of every game
\* is >= 0.
C1_AttemptsNonNegative ==
    \A k \in DOMAIN games : games[k].attempts_remaining >= 0

\* C2: once a game has game_over = TRUE no step changes its stored entity;
\* a make_move, guess_word or cancel_game call on it stores no Score and
\* returns the unchanged game with an explanatory message.
C2_TerminalIsFinal ==
    [][\A k \in DOMAIN games : games[k].game_over =>
        /\ games'[k] = games[k]
        /\ (Handled("make_move", k) \/ Handled("guess_word", k)
                \/ Handled("cancel_game", k)) =>
            /\ scores' = scores
            /\ response'.message \in
                   {"Game already over!", "Game already over, can't cancel!"}
            /\ response' = to_form(games[k], k, response'.message)]_vars

C2_Witness ==
    /\ request.op = "make_move"
    /\ request.key \in DOMAIN games
    /\ games[request.key].game_over
    /\ games[request.key].won
    /\ response.message = "Game already over!"

\* C3: every make_move or guess_word call on an Active game lowers the stored
\* attempts_remaining by exactly one, and no step ever raises it.
C3_EveryGuessDecrements ==
    [][\A k \in DOMAIN games :
        /\ games'[k].attempts_remaining <= games[k].attempts_remaining
        /\ GuessOnActive(k) =>
               games'[k].attempts_remaining = games[k].attempts_remaining - 1]_vars

\* C4: a make_move or guess_word call on an Active game that completes the
\* word (guess_state equals target) and brings attempts_remaining to 0 ends
\* the game as Won.
C4_WinBeforeLoss ==
    [][\A k \in DOMAIN games :
        (/\ GuessOnActive(k)
         /\ ~is_complete(games[k])
         /\ is_complete(games'[k])
         /\ games'[k].attempts_remaining = 0)
        => games'[k].game_over /\ games'[k].won]_vars

\* C5: a game has exactly one Score when it is Won or Lost and none when it
\* is Active or Cancelled; the Score carries the game's result.
C5_OneScorePerPlayedGame ==
    \A k \in DOMAIN games :
        /\ ScoreCount(k) =
               IF games[k].game_over /\ ~games[k].cancelled THEN 1 ELSE 0
        /\ \A i \in DOMAIN scores :
               scores[i].game = k => scores[i].won = games[k].won

C5_Witness ==
    /\ \E k \in DOMAIN games :
           games[k].game_over /\ ~games[k].won /\ ~games[k].cancelled
               /\ ScoreCount(k) = 1
    /\ request.op = "make_move"

\* C6: cancel_game on an Active game sets game_over, clears won, marks the
\* game cancelled and changes nothing else; on a terminal game it changes
\* nothing; in both cases it stores no Score.
C6_CancelFrame ==
    [][\A k \in DOMAIN games : Handled("cancel_game", k) =>
        /\ scores' = scores
        /\ IF games[k].game_over
           THEN /\ games'[k] = games[k]
                /\ response'.message = "Game already over, can't cancel!"
           ELSE /\ games'[k] = [games[k] EXCEPT !.game_over = TRUE,
                                                !.won = FALSE,
                                                !.cancelled = TRUE]
                /\ response'.message = "game cancelled"]_vars

C6_Witness ==
    /\ request.op = "cancel_game"
    /\ response.message = "game cancelled"
    /\ games[request.key].cancelled
    /\ games[request.key].game_over
    /\ games[request.key].guess_history # << >>
    /\ ScoreCount(request.key) = 0

\* C7: guess_word on an Active game with the target itself ends the game as
\* Won with every position of guess_state revealed.
C7_ExactWordWins ==
    [][\A k \in DOMAIN games :
        (/\ ~games[k].game_over
         /\ Handled("guess_word", k)
         /\ request'.guess = games[k].target)
        => /\ games'[k].game_over
           /\ games'[k].won
           /\ DOMAIN games'[k].guess_state = DOMAIN games[k].target
           /\ \A i \in DOMAIN games[k].target :
                  games'[k].guess_state[i] = <<games[k].target[i]>>]_vars

C7_Witness ==
    /\ request.op = "guess_word"
    /\ request.guess = games[request.key].target
    /\ Len(request.guess) > 1
    /\ games[request.key].guess_history = << >>
    /\ games[request.key].won
    /\ games[request.key].attempts_remaining = 0

\* C8: guess_state and target of every game have the same length in every
\* reachable state.
C8_GuessStateLength ==
    \A k \in DOMAIN games : Len(games[k].guess_state) = Len(games[k].target)

C8_Witness ==
    /\ request.op = "guess_word"
    /\ response.message = "That's not the word"
    /\ Len(request.guess) > Len(games[request.key].target)

\* C9: a letter guess on an Active game that leaves the word incomplete and
\* attempts_remaining below 1 ends the game as Lost.
C9_ExhaustedLetterGuessLoses ==
    [][\A k \in DOMAIN games :
        (/\ ~games[k].game_over
         /\ Handled("make_move", k)
         /\ Len(request'.guess) = 1
         /\ ~is_complete(games'[k])
         /\ games'[k].attempts_remaining < 1)
        => games'[k].game_over /\ ~games'[k].won]_vars

\* C10: a make_move call on an Active game with a malformed or repeated
\* guess changes only attempts_remaining, by one; a fresh letter of the
\* target is recorded and revealed at each of its positions.
C10_RejectedGuessFrame ==
    [][\A k \in DOMAIN games :
        (~games[k].game_over /\ Handled("make_move", k)) =>
        LET guess == request'.guess
            old == games[k]
            new == games'[k]
        IN  IF Len(guess) # 1 \/ list_contains(old.guess_history, guess)
            THEN /\ new = [old EXCEPT !.attempts_remaining = @ - 1]
                 /\ scores' = scores
                 /\ response'.message =
                        IF Len(guess) # 1
                        THEN "One letter at a time please, guess again."
                        ELSE "You already tried that letter, guess again."
            ELSE /\ new.guess_history = Append(old.guess_history, guess)
                 /\ \A i \in DOMAIN old.target :
                        new.guess_state[i] =
                            IF old.target[i] = guess[1]
                            THEN guess ELSE old.guess_state[i]]_vars

C10_Witness ==
    /\ request.op = "make_move"
    /\ response.message = "You already tried that letter, guess again."
    /\ str_contains(games[request.key].target, request.guess)
    /\ join(games[request.key].guess_state) = <<"a", "_">>
    /\ ~games[request.key].game_over

\* C11: new_game rejects max <= min with an invalid-range error and
\* attempts <= 0 with an invalid-budget error; a rejected call stores no game
\* and queues no statistics task; an accepted call stores and returns an
\* Active game with attempts_remaining equal to the budget, guess_state
\* unrevealed and guess_history empty.
C11_NewGameValidation ==
    [][request'.op = "new_game" =>
        LET r == request' IN
        IF ~ user_exists(users, r.user_name)
        THEN /\ response'.status = "NotFound"
             /\ UNCHANGED <<games, taskqueue>>
        ELSE IF r.max <= r.min
        THEN /\ response'.status = "BadRequest"
             /\ UNCHANGED <<games, taskqueue>>
        ELSE IF r.attempts <= 0
        THEN /\ response'.status = "InvalidBudgetError"
             /\ UNCHANGED <<games, taskqueue>>
        ELSE /\ Len(games') = Len(games) + 1
             /\ SubSeq(games', 1, Len(games)) = games
             /\ taskqueue' = taskqueue + 1
             /\ LET g == games'[Len(games')] IN
                 /\ ~g.game_over
                 /\ g.attempts_remaining = r.attempts
                 /\ g.target = r.target
                 /\ g.guess_history = << >>
                 /\ Len(g.guess_state) = Len(r.target)
                 /\ \A i \in DOMAIN g.guess_state :
                        g.guess_state[i] = Placeholder
                 /\ response'.status = "ok"
                 /\ response'.attempts_remaining = r.attempts
                 /\ response'.game_over = FALSE]_vars

C11_Witness ==
    /\ request.op = "new_game"
    /\ request.max > request.min
    /\ request.attempts <= 0
    /\ response.status = "InvalidBudgetError"
    /\ games = << >>
    /\ taskqueue = 0

\* C12: no two stored users have the same name, also when create_user calls
\* of different clients interleave between the query and the put.
C12_UniqueUserNames ==
    \A i \in DOMAIN users : \A j \in DOMAIN users :
        users[i].name = users[j].name => i = j

\* C13: get_user_games for an existing user returns exactly the games that
\* the user owns and that have game_over = FALSE.
C13_UserGamesExact ==
    (request.op = "get_user_games" /\ response.status = "ok") =>
        {response.items[i].urlsafe_key : i \in DOMAIN response.items} =
            {k \in DOMAIN games :
                games[k].user = request.user_name /\ ~games[k].game_over}

\* C18: the reminder job mails a user if and only if the user has an email
\* address and owns at least one game with game_over = FALSE.
C18_ReminderIffUnfinished ==
    request.op = "send_reminder" =>
        \A i \in DOMAIN users :
            (\E m \in DOMAIN outbox : outbox[m].name = users[i].name)
            <=> (/\ users[i].email # NoEmail
                 /\ \E k \in DOMAIN games :
                        games[k].user = users[i].name /\ ~games[k].game_over)

\* the stored game and the scores after the call of client c, run alone
SerialStep(state, c) ==
    LET out == handler_outcome(inflight[c].op, state.game, inflight[c].guess)
    IN  [game |-> IF out.put THEN out.game ELSE state.game,
         scores |-> IF out.score = "none" THEN state.scores
                    ELSE Append(state.scores,
                                Score(out.game, inflight[c].key,
                                      out.score = "won"))]

\* the calls of the clients order[i], ..., order[n] run one after another
RECURSIVE SerialRun(_, _, _)
SerialRun(state, order, i) ==
    IF i > Len(order) THEN state
    ELSE SerialRun(SerialStep(state, order[i]), order, i + 1)

\* the orders in which all clients can be served one at a time
SerialOrders ==
    {order \in [1..MaxClients -> Clients] :
        \A c \in Clients : \E i \in 1..MaxClients : order[i] = c}

\* C14: when calls of different clients on one game interleave, the stored
\* game and the Scores at the end are those of the same calls run one after
\* another in some order.
C14_Serializable ==
    (\A c \in Clients : inflight[c].pc = "done") =>
        LET start == [game |-> new_game_entity(games[1].user,
                                               games[1].attempts_allowed,
                                               games[1].target),
                      scores |-> << >>]
        IN  \E order \in SerialOrders :
                SerialRun(start, order, 1) = [game |-> games[1], scores |-> scores]

\* C15: when make_move, guess_word or cancel_game returns, the stored game
\* equals the game rendered in the returned view.
C15_ViewIsStored ==
    (request.op \in GameOps /\ request.key \in DOMAIN games) =>
        LET g == games[request.key] IN
        /\ response.attempts_remaining = g.attempts_remaining
        /\ response.guess_state = join(g.guess_state)
        /\ response.game_over = g.game_over

\* C17: a guess_word call that repeats the word (of two letters or more) of
\* the guess_word call before it on the same, still Active, game is reported
\* as a repeat and changes nothing but attempts_remaining, by one.
C17_RepeatedWordRejected ==
    [][\A k \in DOMAIN games :
        (/\ request.op = "guess_word"
         /\ request.key = k
         /\ ~games[k].game_over
         /\ Handled("guess_word", k)
         /\ request'.guess = request.guess
         /\ Len(request.guess) > 1)
        => /\ response'.message = "You already tried that word, guess again."
           /\ games'[k] = [games[k] EXCEPT !.attempts_remaining = @ - 1]
           /\ scores' = scores]_vars

\* C19: every stored game with game_over = FALSE has attempts_remaining >= 1.
C19_ActiveHasAttempts ==
    \A k \in DOMAIN games :
        ~games[k].game_over => games[k].attempts_remaining >= 1

\* the value of one decimal digit
DigitValue(ch) ==
    CHOOSE d \in 0..9 :
        <<"0", "1", "2", "3", "4", "5", "6", "7", "8", "9">>[d + 1] = ch

\* the natural number a string of digits denotes
RECURSIVE NaturalOf(_)
NaturalOf(text) ==
    IF text = << >> THEN 0
    ELSE 10 * NaturalOf(SubSeq(text, 1, Len(text) - 1))
             + DigitValue(text[Len(text)])

\* the number of hundredths a text "d...d.dd" or "-d...d.dd" denotes
HundredthsOf(text) ==
    LET neg == text[1] = "-"
        body == IF neg THEN Tail(text) ELSE text
        n == Len(body)
        v == 100 * NaturalOf(SubSeq(body, 1, n - 3))
                 + NaturalOf(SubSeq(body, n - 1, n))
    IN  IF neg THEN -v ELSE v

\* the attempts_remaining of the games with game_over = FALSE, in key order
ActiveRemaining ==
    LET keys == query_keys(games, <<FilterNode("game_over", FALSE)>>, 1)
    IN  [i \in 1..Len(keys) |-> games[keys[i]].attempts_remaining]

\* C16: a run of _cache_average_attempts over a non-empty set of games with
\* game_over = FALSE caches the mean of their attempts_remaining with two
\* decimals, to the nearest hundredth (4.00 for 3, 5, 4); with no such game
\* it leaves the cached value as it was.
C16_CachedAverage ==
    [][request'.op = "cache_average_attempts" =>
        LET n == Len(ActiveRemaining)
            total == total_attempts_remaining(games,
                         query_keys(games, <<FilterNode("game_over", FALSE)>>, 1), 1)
        IN  IF n = 0 THEN memcache' = memcache
            ELSE LET text == Tail(memcache'.value)
                     h == HundredthsOf(text)
                 IN  /\ memcache'.set
                     /\ Head(memcache'.value) = AverageText
                     /\ Len(text) >= 4
                     /\ text[Len(text) - 2] = "."
                     /\ 2 * (100 * total - n * h) <= n
                     /\ 2 * (n * h - 100 * total) <= n
                     /\ ActiveRemaining = <<3, 5, 4>> =>
                            text = <<"4", ".", "0", "0">>]_vars

C16_Witness ==
    /\ request.op = "cache_average_attempts"
    /\ ActiveRemaining = <<3, 5, 4>>
    /\ memcache = [set |-> TRUE,
                   value |-> <<AverageText, "4", ".", "0", "0">>]

====
